---- MODULE Spec2Model ----
(***************************************************************************)
(* Model of Mailer: send_emails (src/mailer.py), the batched, throttled    *)
(* dispatcher.  One run of send_emails is a state machine whose steps are  *)
(* the statements of the function between its await points; the outcomes   *)
(* of the calls it makes on its collaborators (environment loading, the    *)
(* SMTP client, the template renderer) are chosen nondeterministically.    *)
(* The record loader (src/data_loader.py: MailSession, load_from_excel)    *)
(* and the line of the main flow that takes its result are modelled by     *)
(* their own actions and specifications (SpecLoader, SpecUid).             *)
(***************************************************************************)
EXTENDS Integers, Sequences, FiniteSets, TLC

\* ---------------------------------------------------------------- bounds
MaxN == 5        \* longest record list explored
MaxBatch == 3    \* largest batch_size explored (0 is explored too)
MaxCap == 3      \* largest max_emails_per_session explored
MaxAttachN == 3  \* longest record list explored in runs with an attachment
MaxRows == 3     \* longest sheet explored by the loader

VARIABLES
    sessions,                \* the list of records handed to send_emails
    batch_size,              \* parameter batch_size
    max_emails_per_session,  \* parameter: {} is None, {m} is the cap m
    attachment_path,         \* parameter: {} is None, {p} is the path p
    pc,                      \* position of the run in send_emails
    is_connected,            \* smtp.is_connected
    sent_count,
    failure_count,
    total_batches,
    batch_index,
    start,
    end,
    batch,
    idx,                     \* position of the iterator of "for session in batch"
    batches,                 \* history: the batches formed so far, in order
    trace,                   \* history: the calls made on collaborators, in order
    result,                  \* what the caller of send_emails observes
    read_excel,              \* what pd.read_excel(path) does: "ok" or the exception
    df,                      \* the sheet: a sequence of rows, column name -> cell
    lpc,                     \* position of the loader and of the main flow
    index,                   \* position of df.iterrows()
    mail_sessions,           \* the list built by load_from_excel
    log,                     \* history: what load_from_excel logged as errors
    loaded,                  \* the value returned by load_from_excel
    main,                    \* the names bound at mailer.py line 225
    session_data,            \* the input of MailSession.model_validate
    mail_session             \* the outcome of MailSession.model_validate

loaderVars == <<read_excel, df, lpc, index, mail_sessions, log, loaded, main,
                session_data, mail_session>>

senderVars == <<sessions, batch_size, max_emails_per_session, attachment_path, pc,
          is_connected,
          sent_count, failure_count, total_batches, batch_index, start, end,
          batch, idx, batches, trace, result>>

vars == <<senderVars, loaderVars>>

\* ------------------------------------------------------------ pure helpers
Min(a, b) == IF a < b THEN a ELSE b

\* the slice as it would be with an inclusive right end
PySliceInclusive(s, a, b) == SubSeq(s, Min(a, Len(s)) + 1, Min(b + 1, Len(s)))

\* Python s[a:b] for 0 <= a, 0 <= b: both ends are clamped to len(s).
PySlice(s, a, b) == SubSeq(s, Min(a, Len(s)) + 1, Min(b, Len(s)))

\* total_batches as it would be with a floor in place of the ceiling
TotalBatchesFloor(n, b) == n \div b

\* total_batches as it would be with n // b + 1 in place of the ceiling
TotalBatchesPlusOne(n, b) == n \div b + 1

\* (len(sessions) + batch_size - 1) // batch_size, for batch_size >= 1
TotalBatches(n, b) == (n + b - 1) \div b

\* sessions[start:end] of the batch with index k (0-based)
BatchAt(s, b, k) == PySlice(s, k * b, k * b + b)

\* the cap check as it would be with > in place of >=
CapReachedStrict(cap, sent) == \E m \in cap : sent > m

\* "max_emails_per_session is not None and sent_count >= max_emails_per_session"
CapReached(cap, sent) == \E m \in cap : sent >= m

\* a call on a collaborator; att tells what create_email put in the message
\* handed to send_message ("none" for every other call)
Event(op, rec, res) == [op |-> op, rec |-> rec, res |-> res, att |-> "none"]
SendEvent(rec, res, att) == [op |-> "send", rec |-> rec, res |-> res, att |-> att]

\* lines 115-117: what open(attachment_path, "rb") and f.read() can do when
\* create_email is given a path
FileOutcomes(path) ==
    IF path = {} THEN {"unused"} ELSE {"ok", "FileNotFoundError", "Exception"}

\* lines 107-129 of create_email: no path, no attachment; a path whose file
\* is read, the attachment; an exception at lines 110-123 is logged as a
\* warning (lines 124-127) and the message is returned without attachment.
CreateEmail(path, file) ==
    IF path = {} THEN "none"
    ELSE IF file = "ok" THEN "attached" ELSE "skipped"

NoResult == [kind |-> "none", sent |-> 0, failed |-> 0]
Returned(s, f) == [kind |-> "return", sent |-> s, failed |-> f]
Raised == [kind |-> "raise", sent |-> 0, failed |-> 0]

\* ------------------------------------------------- data_loader: MailSession
\* Mode and MailType, by their values (data_loader.py lines 21-36)
Modes == {"camp", "lead", "client", "adhoc"}
MailTypes == {"intro", "followup", "reply"}

\* a string as the sequence of its characters
Chars(str) ==
    CASE str = "camp" -> <<"c", "a", "m", "p">>
      [] str = "lead" -> <<"l", "e", "a", "d">>
      [] str = "client" -> <<"c", "l", "i", "e", "n", "t">>
      [] str = "adhoc" -> <<"a", "d", "h", "o", "c">>
      [] str = "intro" -> <<"i", "n", "t", "r", "o">>
      [] str = "followup" -> <<"f", "o", "l", "l", "o", "w", "u", "p">>
      [] str = "reply" -> <<"r", "e", "p", "l", "y">>
      [] str = "custom-uid" -> <<"c", "u", "s", "t", "o", "m", "-", "u", "i", "d">>
      [] OTHER -> <<>>

HexChars == <<"0", "1", "2", "3", "4", "5", "6", "7", "8", "9",
              "a", "b", "c", "d", "e", "f">>
DigitChar(d) == HexChars[d + 1]

\* the decimal digits of n >= 0
RECURSIVE Digits(_)
Digits(n) == IF n < 10 THEN <<DigitChar(n)>>
             ELSE Digits(n \div 10) \o <<DigitChar(n % 10)>>

RECURSIVE ZeroPad(_, _)
ZeroPad(ds, w) == IF Len(ds) >= w THEN ds ELSE ZeroPad(<<"0">> \o ds, w)

\* the format as it would be without the zero padding ("d" for "04d")
FormatUnpadded(n) ==
    IF n >= 0 THEN Digits(n) ELSE <<"-">> \o Digits(0 - n)

\* Python f"{n:04d}": at least 4 characters, zeros after the sign
Format04d(n) ==
    IF n >= 0 THEN ZeroPad(Digits(n), 4)
    ELSE <<"-">> \o ZeroPad(Digits(0 - n), 3)

\* secrets.token_hex(2): two random bytes, each as two lowercase hex digits
TokenHex(bytes) ==
    <<HexChars[(bytes[1] \div 16) + 1], HexChars[(bytes[1] % 16) + 1],
      HexChars[(bytes[2] \div 16) + 1], HexChars[(bytes[2] % 16) + 1]>>

\* the random byte pairs explored
Tokens == {<<0, 0>>, <<10, 188>>, <<171, 205>>, <<255, 255>>}

\* line 57: the uid generated for a session
UidOf(mode, campaign_id, mail_type, bytes) ==
    Chars(mode) \o Format04d(campaign_id) \o <<"_">> \o Chars(mail_type)
       \o <<"_">> \o TokenHex(bytes)

\* the cells and the addresses explored; NaN is an empty cell, None is what
\* row.get returns for a column the sheet does not have
NaN == "NaN"
None == "None"
Emails == {"test1@example.com", "test2@example.com", "invalid-email"}
ValidEmails == {"test1@example.com", "test2@example.com"}

\* pydantic EmailStr (line 42) on the values explored
IsValidEmail(e) == e \in ValidEmails

\* MailSession.model_validate (lines 38-58): the field checks, the default
\* of mode (line 46), then generate_uid, which keeps a uid already set.
NoSession == [ok |-> FALSE]
ModelValidate(data, bytes) ==
    IF ~IsValidEmail(data.recipient_email)
       THEN NoSession
       ELSE LET mode == IF data.mode = None THEN "camp" ELSE data.mode
            IN [ok |-> TRUE,
                recipient_email |-> data.recipient_email,
                recipient_name |-> data.recipient_name,
                campaign_id |-> data.campaign_id,
                mail_type |-> data.mail_type,
                mode |-> mode,
                uid |-> IF data.uid = <<>>
                           THEN UidOf(mode, data.campaign_id, data.mail_type, bytes)
                           ELSE data.uid]

\* row.get(col) of a pandas row
RowGet(row, col) == IF col \in DOMAIN row THEN row[col] ELSE None

\* lines 79-88: session_data built by load_from_excel from one row;
\* pd.notna is false of an empty cell and of None
SessionData(row) ==
    [recipient_email |-> RowGet(row, "Email"),
     recipient_name |-> IF RowGet(row, "Name") \notin {NaN, None}
                           THEN RowGet(row, "Name") ELSE None,
     mail_type |-> "intro",
     mode |-> "camp",
     campaign_id |-> 1001,
     uid |-> <<>>]

\* mailer.py line 225: "sessions, total_rows, skipped_rows = <value>"
\* binds three names when the value has exactly three elements and raises
\* ValueError otherwise.
NotBound == [kind |-> "none"]
Unpack3(value) ==
    IF Len(value) = 3
       THEN [kind |-> "bound", sessions |-> value[1], total_rows |-> value[2],
             skipped_rows |-> value[3]]
       ELSE [kind |-> "ValueError"]

LogEntry(msg, row) == [msg |-> msg, row |-> row]

\* the loader and the main flow at rest
LoaderIdle ==
    /\ read_excel = "ok"
    /\ df = <<>>
    /\ lpc = "idle"
    /\ index = 1
    /\ mail_sessions = <<>>
    /\ log = <<>>
    /\ loaded = <<>>
    /\ main = NotBound
    /\ session_data = [uid |-> <<>>]
    /\ mail_session = NoSession

\* send_emails not called
SenderIdle ==
    /\ sessions = <<>>
    /\ batch_size = 1
    /\ max_emails_per_session = {}
    /\ attachment_path = {}
    /\ pc = "idle"
    /\ is_connected = FALSE
    /\ sent_count = 0
    /\ failure_count = 0
    /\ total_batches = 0
    /\ batch_index = 0
    /\ start = 0
    /\ end = 0
    /\ batch = <<>>
    /\ idx = 1
    /\ batches = <<>>
    /\ trace = <<>>
    /\ result = [kind |-> "none", sent |-> 0, failed |-> 0]

\* ------------------------------------------------------------------ Init
Init ==
    /\ LoaderIdle
    /\ sessions \in {[i \in 1..n |-> i] : n \in 0..MaxN}
    /\ batch_size \in 0..MaxBatch
    /\ max_emails_per_session \in {{}} \cup {{m} : m \in 0..MaxCap}
    /\ attachment_path = {}
    /\ pc = "start"
    /\ is_connected = FALSE
    /\ sent_count = 0
    /\ failure_count = 0
    /\ total_batches = 0
    /\ batch_index = 0
    /\ start = 0
    /\ end = 0
    /\ batch = <<>>
    /\ idx = 1
    /\ batches = <<>>
    /\ trace = <<>>
    /\ result = NoResult

\* --------------------------------------------------------------- actions
\* line 154: load_environment_variables() returns or raises ValueError,
\* outside the try block, so the exception reaches the caller.
LoadEnv ==
    /\ pc = "start"
    /\ \E ok \in BOOLEAN :
          IF ok THEN /\ pc' = "connect"
                     /\ result' = result
                ELSE /\ pc' = "done"
                     /\ result' = Raised
    /\ UNCHANGED <<loaderVars, sessions, batch_size, max_emails_per_session,
                   attachment_path, is_connected,
                   sent_count, failure_count, total_batches, batch_index,
                   start, end, batch, idx, batches, trace>>

\* line 161: await smtp.connect(); a failure is caught at line 193.
Connect ==
    /\ pc = "connect"
    /\ \E r \in {"ok", "raise"} :
          /\ trace' = Append(trace, Event("connect", 0, r))
          /\ is_connected' = (r = "ok")
          /\ pc' = IF r = "ok" THEN "login" ELSE "finally"
    /\ UNCHANGED <<loaderVars, sessions, batch_size, max_emails_per_session,
                   attachment_path, sent_count, failure_count, total_batches, batch_index,
                   start, end, batch, idx, batches, result>>

\* Login as it would be if its failure were swallowed and the run went on.
LoginIgnoresFailure ==
    /\ pc = "login"
    /\ \E r \in {"ok", "raise", "drop"} :
          /\ trace' = Append(trace, Event("login", 0, r))
          /\ is_connected' = (r # "drop")
          /\ pc' = "batches"
    /\ UNCHANGED <<loaderVars, sessions, batch_size, max_emails_per_session,
                   attachment_path, sent_count, failure_count, total_batches, batch_index,
                   start, end, batch, idx, batches, result>>

\* line 162: await smtp.login(...); it returns, raises with the connection
\* still open, or raises because the connection was lost ("drop").
Login ==
    /\ pc = "login"
    /\ \E r \in {"ok", "raise", "drop"} :
          /\ trace' = Append(trace, Event("login", 0, r))
          /\ is_connected' = (r # "drop")
          /\ pc' = IF r = "ok" THEN "batches" ELSE "finally"
    /\ UNCHANGED <<loaderVars, sessions, batch_size, max_emails_per_session,
                   attachment_path, sent_count, failure_count, total_batches, batch_index,
                   start, end, batch, idx, batches, result>>

\* line 164: total_batches; batch_size = 0 raises ZeroDivisionError, which
\* is caught at line 193.
ComputeBatches ==
    /\ pc = "batches"
    /\ IF batch_size = 0
          THEN /\ pc' = "finally"
               /\ UNCHANGED <<total_batches, batch_index>>
          ELSE /\ total_batches' = TotalBatches(Len(sessions), batch_size)
               /\ batch_index' = 0
               /\ pc' = "for_batch"
    /\ UNCHANGED <<loaderVars, sessions, batch_size, max_emails_per_session,
                   attachment_path, is_connected,
                   sent_count, failure_count, start, end, batch, idx,
                   batches, trace, result>>

\* lines 166-171: head of "for batch_index in range(total_batches)".
ForBatch ==
    /\ pc = "for_batch"
    /\ IF batch_index < total_batches
          THEN /\ start' = batch_index * batch_size
               /\ end' = start' + batch_size
               /\ batch' = PySlice(sessions, start', end')
               /\ idx' = 1
               /\ batches' = Append(batches, batch')
               /\ pc' = "for_session"
          ELSE /\ pc' = "finally"
               /\ UNCHANGED <<start, end, batch, idx, batches>>
    /\ UNCHANGED <<loaderVars, sessions, batch_size, max_emails_per_session,
                   attachment_path, is_connected,
                   sent_count, failure_count, total_batches, batch_index,
                   trace, result>>

\* ForSession as it would be if the early return did not pass through the
\* finally block.
ForSessionReturnsDirectly ==
    /\ pc = "for_session"
    /\ IF idx > Len(batch)
          THEN pc' = "delay" /\ result' = result
          ELSE IF CapReached(max_emails_per_session, sent_count)
                  THEN /\ pc' = "done"
                       /\ result' = Returned(sent_count, failure_count)
                  ELSE pc' = "render" /\ result' = result
    /\ UNCHANGED <<loaderVars, sessions, batch_size, max_emails_per_session,
                   attachment_path, is_connected,
                   sent_count, failure_count, total_batches, batch_index,
                   start, end, batch, idx, batches, trace>>

\* lines 173-176: head of "for session in batch" and the cap check; the
\* early return leaves through the finally block.
ForSession ==
    /\ pc = "for_session"
    /\ pc' = IF idx > Len(batch) THEN "delay"
             ELSE IF CapReached(max_emails_per_session, sent_count)
                  THEN "finally"
                  ELSE "render"
    /\ UNCHANGED <<loaderVars, sessions, batch_size, max_emails_per_session,
                   attachment_path, is_connected,
                   sent_count, failure_count, total_batches, batch_index,
                   start, end, batch, idx, batches, trace, result>>

\* Render as it would be if a render error were logged but not counted.
RenderFailureUncounted ==
    /\ pc = "render"
    /\ \E r \in {"ok", "raise"} :
          /\ trace' = Append(trace, Event("render", batch[idx], r))
          /\ IF r = "ok"
                THEN /\ pc' = "send"
                     /\ UNCHANGED <<failure_count, idx>>
                ELSE /\ failure_count' = failure_count
                     /\ idx' = idx + 1
                     /\ pc' = "for_session"
    /\ UNCHANGED <<loaderVars, sessions, batch_size, max_emails_per_session,
                   attachment_path, is_connected,
                   sent_count, total_batches, batch_index, start, end, batch,
                   batches, result>>

\* line 179: render_html returns or raises; lines 184-186 count the failure.
Render ==
    /\ pc = "render"
    /\ \E r \in {"ok", "raise"} :
          /\ trace' = Append(trace, Event("render", batch[idx], r))
          /\ IF r = "ok"
                THEN /\ pc' = "send"
                     /\ UNCHANGED <<failure_count, idx>>
                ELSE /\ failure_count' = failure_count + 1
                     /\ idx' = idx + 1
                     /\ pc' = "for_session"
    /\ UNCHANGED <<loaderVars, sessions, batch_size, max_emails_per_session,
                   attachment_path, is_connected,
                   sent_count, total_batches, batch_index, start, end, batch,
                   batches, result>>

\* Send as it would be if a transport error escaped the per-record handler
\* and reached the handler at line 193.
SendAbortsOnFailure ==
    /\ pc = "send"
    /\ \E r \in (IF is_connected THEN {"ok", "raise", "drop"} ELSE {"raise"}) :
          /\ \E f \in FileOutcomes(attachment_path) :
                trace' = Append(trace, SendEvent(batch[idx], r,
                                                 CreateEmail(attachment_path, f)))
          /\ is_connected' = (is_connected /\ r # "drop")
          /\ IF r = "ok"
                THEN /\ sent_count' = sent_count + 1
                     /\ UNCHANGED failure_count
                     /\ pc' = "for_session"
                ELSE /\ failure_count' = failure_count + 1
                     /\ UNCHANGED sent_count
                     /\ pc' = "finally"
    /\ idx' = idx + 1
    /\ UNCHANGED <<loaderVars, sessions, batch_size, max_emails_per_session,
                   attachment_path, total_batches, batch_index, start, end, batch, batches,
                   result>>

\* Send as it would be if a failed send were retried: the same record is
\* rendered and sent again.
SendRetriesOnFailure ==
    /\ pc = "send"
    /\ \E r \in (IF is_connected THEN {"ok", "raise", "drop"} ELSE {"raise"}) :
          /\ \E f \in FileOutcomes(attachment_path) :
                trace' = Append(trace, SendEvent(batch[idx], r,
                                                 CreateEmail(attachment_path, f)))
          /\ is_connected' = (is_connected /\ r # "drop")
          /\ IF r = "ok"
                THEN /\ sent_count' = sent_count + 1
                     /\ idx' = idx + 1
                     /\ UNCHANGED failure_count
                ELSE /\ failure_count' = failure_count + 1
                     /\ idx' = idx
                     /\ UNCHANGED sent_count
    /\ pc' = "for_session"
    /\ UNCHANGED <<loaderVars, sessions, batch_size, max_emails_per_session,
                   attachment_path, total_batches, batch_index, start, end, batch, batches,
                   result>>

\* lines 180-186: create_email builds the message (opening the attachment
\* file anew for this record), await smtp.send_message(msg); it returns,
\* raises with the connection still open, or raises because the connection
\* is lost ("drop"); on a lost connection it can only raise.
Send ==
    /\ pc = "send"
    /\ \E r \in (IF is_connected THEN {"ok", "raise", "drop"} ELSE {"raise"}) :
          /\ \E f \in FileOutcomes(attachment_path) :
                trace' = Append(trace, SendEvent(batch[idx], r,
                                                 CreateEmail(attachment_path, f)))
          /\ is_connected' = (is_connected /\ r # "drop")
          /\ IF r = "ok"
                THEN /\ sent_count' = sent_count + 1
                     /\ UNCHANGED failure_count
                ELSE /\ failure_count' = failure_count + 1
                     /\ UNCHANGED sent_count
    /\ idx' = idx + 1
    /\ pc' = "for_session"
    /\ UNCHANGED <<loaderVars, sessions, batch_size, max_emails_per_session,
                   attachment_path, total_batches, batch_index, start, end, batch, batches,
                   result>>

\* Delay as it would be without the test "batch_index + 1 < total_batches".
DelayAfterEveryBatch ==
    /\ pc = "delay"
    /\ trace' = Append(trace, Event("sleep", 0, "ok"))
    /\ batch_index' = batch_index + 1
    /\ pc' = "for_batch"
    /\ UNCHANGED <<loaderVars, sessions, batch_size, max_emails_per_session,
                   attachment_path, is_connected,
                   sent_count, failure_count, total_batches, start, end,
                   batch, idx, batches, result>>

\* lines 188-191: the inter-batch delay, then the next batch_index.
Delay ==
    /\ pc = "delay"
    /\ trace' = IF batch_index + 1 < total_batches
                THEN Append(trace, Event("sleep", 0, "ok"))
                ELSE trace
    /\ batch_index' = batch_index + 1
    /\ pc' = "for_batch"
    /\ UNCHANGED <<loaderVars, sessions, batch_size, max_emails_per_session,
                   attachment_path, is_connected,
                   sent_count, failure_count, total_batches, start, end,
                   batch, idx, batches, result>>

\* lines 195-202 (and the return at line 176 passing through them): quit
\* when still connected (an exception of quit is logged at line 200), then
\* hand the counts to the caller.
Finally ==
    /\ pc = "finally"
    /\ IF is_connected
          THEN \E r \in {"ok", "raise"} :
                  /\ trace' = Append(trace, Event("quit", 0, r))
                  /\ is_connected' = (r # "ok")
          ELSE UNCHANGED <<trace, is_connected>>
    /\ result' = Returned(sent_count, failure_count)
    /\ pc' = "done"
    /\ UNCHANGED <<loaderVars, sessions, batch_size, max_emails_per_session,
                   attachment_path, sent_count, failure_count, total_batches, batch_index,
                   start, end, batch, idx, batches>>

Next ==
    \/ LoadEnv
    \/ Connect
    \/ Login
    \/ ComputeBatches
    \/ ForBatch
    \/ ForSession
    \/ Render
    \/ Send
    \/ Delay
    \/ Finally

Spec == Init /\ [][Next]_vars

\* send_emails is one flow of control: when every awaited call returns or
\* raises, the next statement of the function is always executed.
SpecFair == Init /\ [][Next]_vars /\ WF_vars(Next)

\* runs of send_emails that are given an attachment path
InitAttach ==
    /\ LoaderIdle
    /\ sessions \in {[i \in 1..n |-> i] : n \in 0..MaxAttachN}
    /\ batch_size \in 1..2
    /\ max_emails_per_session \in {{}, {1}}
    /\ attachment_path = {"attachment.pdf"}
    /\ pc = "start"
    /\ is_connected = FALSE
    /\ sent_count = 0
    /\ failure_count = 0
    /\ total_batches = 0
    /\ batch_index = 0
    /\ start = 0
    /\ end = 0
    /\ batch = <<>>
    /\ idx = 1
    /\ batches = <<>>
    /\ trace = <<>>
    /\ result = NoResult

SpecAttach == InitAttach /\ [][Next]_vars

\* ------------------------------------------- data_loader: load_from_excel
\* the sheets explored: the column names of the tests and those the code
\* reads; a cell holds an address, a name, or is empty
ColumnSets == {<<"Email", "Name">>, <<"recipient_email", "recipient_name">>}
EmailCells == {"test1@example.com", "invalid-email", NaN}
NameCells == {"John Doe", NaN}
RowsOver(cols) ==
    {[c \in {cols[1], cols[2]} |-> IF c = cols[1] THEN e ELSE nm] :
        e \in EmailCells, nm \in NameCells}
Sheets ==
    UNION {[1..n -> RowsOver(cols)] : n \in 0..MaxRows, cols \in ColumnSets}
LoaderTokens == {<<0, 0>>, <<171, 205>>}

InitLoader ==
    /\ SenderIdle
    /\ read_excel \in {"ok", "FileNotFoundError", "Exception"}
    /\ df \in (IF read_excel = "ok" THEN Sheets ELSE {<<>>})
    /\ lpc = "read"
    /\ index = 1
    /\ mail_sessions = <<>>
    /\ log = <<>>
    /\ loaded = <<>>
    /\ main = NotBound
    /\ session_data = [uid |-> <<>>]
    /\ mail_session = NoSession

\* ReadExcel as it would be if only FileNotFoundError were caught.
ReadExcelReraises ==
    /\ lpc = "read"
    /\ IF read_excel = "ok"
          THEN /\ lpc' = "rows"
               /\ UNCHANGED log
          ELSE IF read_excel = "FileNotFoundError"
                  THEN /\ log' = Append(log, LogEntry("file_not_found", 0))
                       /\ lpc' = "return"
                  ELSE /\ lpc' = "raised"
                       /\ UNCHANGED log
    /\ index' = 1
    /\ UNCHANGED <<senderVars, read_excel, df, mail_sessions, loaded, main,
                   session_data, mail_session>>

\* lines 70-73 and 95-98: pd.read_excel(path); FileNotFoundError and any
\* other Exception are logged and the function goes on to its return.
ReadExcel ==
    /\ lpc = "read"
    /\ IF read_excel = "ok"
          THEN /\ lpc' = "rows"
               /\ UNCHANGED log
          ELSE /\ log' = Append(log, LogEntry(IF read_excel = "FileNotFoundError"
                                                 THEN "file_not_found"
                                                 ELSE "load_error", 0))
               /\ lpc' = "return"
    /\ index' = 1
    /\ UNCHANGED <<senderVars, read_excel, df, mail_sessions, loaded, main,
                   session_data, mail_session>>

\* LoadRow as it would be if a row that fails validation ended the loop.
LoadRowStopsAtInvalid ==
    /\ lpc = "rows"
    /\ index <= Len(df)
    /\ \E bytes \in LoaderTokens :
          LET ms == ModelValidate(SessionData(df[index]), bytes)
          IN IF ms.ok
                THEN /\ mail_sessions' = Append(mail_sessions, ms)
                     /\ index' = index + 1
                     /\ UNCHANGED log
                ELSE /\ log' = Append(log, LogEntry("skip_row", index))
                     /\ index' = Len(df) + 1
                     /\ UNCHANGED mail_sessions
    /\ UNCHANGED <<senderVars, read_excel, df, lpc, loaded, main,
                   session_data, mail_session>>

\* lines 75-94: one row of df.iterrows(): build session_data, validate,
\* append; a row that fails validation is logged and skipped.
LoadRow ==
    /\ lpc = "rows"
    /\ index <= Len(df)
    /\ \E bytes \in LoaderTokens :
          LET ms == ModelValidate(SessionData(df[index]), bytes)
          IN IF ms.ok
                THEN /\ mail_sessions' = Append(mail_sessions, ms)
                     /\ UNCHANGED log
                ELSE /\ log' = Append(log, LogEntry("skip_row", index))
                     /\ UNCHANGED mail_sessions
    /\ index' = index + 1
    /\ UNCHANGED <<senderVars, read_excel, df, lpc, loaded, main,
                   session_data, mail_session>>

\* line 99: return mail_sessions (a list, nothing else)
ReturnSessions ==
    /\ \/ lpc = "return"
       \/ lpc = "rows" /\ index > Len(df)
    /\ loaded' = mail_sessions
    /\ lpc' = "returned"
    /\ UNCHANGED <<senderVars, read_excel, df, index, mail_sessions, log, main,
                   session_data, mail_session>>

\* mailer.py line 225: sessions, total_rows, skipped_rows = load_from_excel(..)
MainUnpack ==
    /\ lpc = "returned"
    /\ main' = Unpack3(loaded)
    /\ lpc' = "main_done"
    /\ UNCHANGED <<senderVars, read_excel, df, index, mail_sessions, log, loaded,
                   session_data, mail_session>>

NextLoader ==
    \/ ReadExcel
    \/ LoadRow
    \/ ReturnSessions
    \/ MainUnpack

SpecLoader == InitLoader /\ [][NextLoader]_vars

\* --------------------------------------- data_loader: MailSession alone
CampaignIds == {-5, 0, 7, 42, 1001, 9999, 10000, 12345}

InitUid ==
    /\ SenderIdle
    /\ read_excel = "ok"
    /\ df = <<>>
    /\ lpc = "construct"
    /\ index = 1
    /\ mail_sessions = <<>>
    /\ log = <<>>
    /\ loaded = <<>>
    /\ main = NotBound
    /\ session_data \in [recipient_email : {"test1@example.com", "invalid-email"},
                          recipient_name : {"John Doe", None},
                          campaign_id : CampaignIds,
                          mail_type : MailTypes,
                          mode : Modes \cup {None},
                          uid : {<<>>, Chars("custom-uid")}]
    /\ mail_session = NoSession

\* MailSession(**session_data) / MailSession.model_validate(session_data)
Construct ==
    /\ lpc = "construct"
    /\ \E bytes \in Tokens : mail_session' = ModelValidate(session_data, bytes)
    /\ lpc' = "constructed"
    /\ UNCHANGED <<senderVars, read_excel, df, index, mail_sessions, log, loaded,
                   main, session_data>>

NextUid == Construct

SpecUid == InitUid /\ [][NextUid]_vars

\* ------------------------------------------------- reading the history
IsRender(e) == e.op = "render"
IsSend(e) == e.op = "send"
IsSleep(e) == e.op = "sleep"
IsQuit(e) == e.op = "quit"

\* An attempt of a record starts with its render call.
Attempts == SelectSeq(trace, IsRender)
Sends == SelectSeq(trace, IsSend)
Delays == Len(SelectSeq(trace, IsSleep))
Quits == Len(SelectSeq(trace, IsQuit))

\* An attempt is finished by a render that raised or by a send.
IsOutcome(e) == (e.op = "render" /\ e.res = "raise") \/ e.op = "send"
Outcomes == SelectSeq(trace, IsOutcome)
Failed(e) == e.res # "ok"
FailedOutcomes == SelectSeq(Outcomes, Failed)

Recs(evs) == [k \in 1..Len(evs) |-> evs[k].rec]

\* position of a record in sessions (records are pairwise distinct)
Pos(rec) == CHOOSE i \in 1..Len(sessions) : sessions[i] = rec

HasEvent(op, res) == \E k \in 1..Len(trace) : trace[k].op = op /\ trace[k].res = res
SetupFailed == HasEvent("connect", "raise") \/ HasEvent("login", "raise")
                  \/ HasEvent("login", "drop")
SetupOK == HasEvent("login", "ok")
Finished == pc = "done" /\ result.kind = "return"

\* the spec's precondition on batch_size
ValidBatchSize == batch_size >= 1

\* ceil(n / b) for b >= 1, stated without the code's arithmetic
CeilDiv(n, b) == CHOOSE c \in 0..n : c * b >= n /\ (c - 1) * b < n

\* the cap check ended the run: the cap is reached and records are left
StoppedByCap ==
    /\ pc \in {"finally", "done"}
    /\ CapReached(max_emails_per_session, sent_count)
    /\ Len(Attempts) < Len(sessions)

\* number of successful sends among the first n events of the history
RECURSIVE OkSends(_)
OkSends(n) ==
    IF n = 0 THEN 0
    ELSE OkSends(n - 1)
           + (IF trace[n].op = "send" /\ trace[n].res = "ok" THEN 1 ELSE 0)

RECURSIVE Flatten(_)
Flatten(ss) == IF ss = <<>> THEN <<>> ELSE Head(ss) \o Flatten(Tail(ss))

\* ------------------------------------------------------------------ C1
\* C1: a failed attempt (render error or transport send error) never aborts
\* the batch or the run.  Each failed attempt is counted once in
\* failure_count; the run never leaves the loops right after a failed
\* attempt of a record that is not the last one: the next record of the
\* list is the next one attempted; at the end every record after a failed
\* one has been attempted unless the cap on successful sends stopped the
\* run.  For the single batch [A, B] with A failing and B succeeding the
\* result is (1, 1) and B's send was attempted.
C1_FailureIsolated ==
    /\ failure_count = Len(FailedOutcomes)
    /\ \A k \in 1..Len(Outcomes) :
          (Failed(Outcomes[k]) /\ Pos(Outcomes[k].rec) < Len(sessions)) =>
             /\ IF k < Len(Outcomes)
                   THEN Outcomes[k + 1].rec = sessions[Pos(Outcomes[k].rec) + 1]
                   ELSE pc \notin {"finally", "done"}
             /\ Finished =>
                   \A q \in (Pos(Outcomes[k].rec) + 1)..Len(sessions) :
                      \/ \E a \in 1..Len(Attempts) : Attempts[a].rec = sessions[q]
                      \/ CapReached(max_emails_per_session, sent_count)
    /\ (/\ Finished
        /\ Len(sessions) = 2
        /\ batch_size >= 2
        /\ Len(Outcomes) >= 1
        /\ Outcomes[1].rec = sessions[1]
        /\ Failed(Outcomes[1])
        /\ Len(Outcomes) >= 2 => ~Failed(Outcomes[2]))
       => /\ result = Returned(1, 1)
          /\ \E k \in 1..Len(Sends) : Sends[k].rec = sessions[2]

\* [A, B] in one batch: A's send failed, B's succeeded, (1, 1) returned.
C1_Witness ==
    /\ Finished
    /\ Len(sessions) = 2
    /\ batch_size = 2
    /\ Len(Outcomes) = 2
    /\ Outcomes[1].op = "send" /\ Outcomes[1].res = "raise"
    /\ Outcomes[2].res = "ok"
    /\ result = Returned(1, 1)

\* ------------------------------------------------------------------ C2
\* C2 as stated: every run without a cap returns counts with
\* sent_count + failure_count = len(sessions), every record attempted
\* exactly once.
C2_AsStated ==
    (Finished /\ max_emails_per_session = {} /\ ValidBatchSize) =>
       /\ result.sent + result.failed = Len(sessions)
       /\ Recs(Attempts) = sessions

\* C2 on the runs whose session was established: every run without a cap,
\* with batch_size >= 1, in which connect and login succeeded returns
\* counts with
\* sent_count + failure_count = len(sessions); the records attempted are
\* exactly the records of the list, each once, and each attempt was finished.
C2_AllAttemptedWhenEstablished ==
    (Finished /\ max_emails_per_session = {} /\ ValidBatchSize /\ SetupOK) =>
       /\ result.sent + result.failed = Len(sessions)
       /\ Recs(Attempts) = sessions
       /\ Recs(Outcomes) = sessions

\* an uncapped run over two batches that counted a success and a failure
C2_Witness ==
    /\ Finished
    /\ max_emails_per_session = {}
    /\ SetupOK
    /\ batch_size = 2
    /\ Len(sessions) = 3
    /\ result.sent >= 1
    /\ result.failed >= 1

\* ------------------------------------------------------------------ C3
\* C3: with max_emails_per_session = M, sent_count <= M in every reachable
\* state, because an attempt is only under way while sent_count < M; the
\* ceiling is on successes: attempts may exceed M (see C3_Witness).
C3_CapIsCeilingOnSent ==
    \A m \in max_emails_per_session :
       /\ sent_count <= m
       /\ pc \in {"render", "send"} => sent_count < m
       /\ Len(SelectSeq(Sends, LAMBDA e : e.res = "ok")) <= m

\* more attempts than the cap: M successes and at least one failure
C3_Witness ==
    \E m \in max_emails_per_session :
       /\ m >= 1
       /\ sent_count = m
       /\ failure_count >= 1
       /\ Len(Outcomes) > m

\* ------------------------------------------------------------------ C4
\* C4 as stated: with a cap M < len(sessions) and no failed attempt the
\* result is (M, 0), exactly the first M records are sent and the others
\* are never attempted.
C4_AsStated ==
    (/\ Finished
     /\ ValidBatchSize
     /\ Len(FailedOutcomes) = 0
     /\ \E m \in max_emails_per_session : m < Len(sessions))
    => \A m \in max_emails_per_session :
          /\ result = Returned(m, 0)
          /\ Recs(Sends) = SubSeq(sessions, 1, m)
          /\ Recs(Attempts) = SubSeq(sessions, 1, m)

\* C4 on the runs whose session was established: with a cap
\* M < len(sessions), batch_size >= 1, connect and login succeeded and no
\* failed attempt, the result is (M, 0), exactly the
\* first M records (in input order) are sent and the remaining
\* len(sessions) - M records are never attempted.
C4_CapStopsAfterFirstM ==
    (/\ Finished
     /\ ValidBatchSize
     /\ SetupOK
     /\ Len(FailedOutcomes) = 0
     /\ \E m \in max_emails_per_session : m < Len(sessions))
    => \A m \in max_emails_per_session :
          /\ result = Returned(m, 0)
          /\ Recs(Sends) = SubSeq(sessions, 1, m)
          /\ Recs(Attempts) = SubSeq(sessions, 1, m)

\* cap 2 on four records in batches of 3: two sent, two never attempted
C4_Witness ==
    /\ Finished
    /\ SetupOK
    /\ max_emails_per_session = {2}
    /\ Len(sessions) = 4
    /\ batch_size = 3
    /\ result = Returned(2, 0)
    /\ Len(Attempts) = 2

\* ------------------------------------------------------------------ C5
\* the outcome of a successful run over an empty record list
EmptyRunResult == Returned(0, 0)

\* C5: when connect or login raises, what the caller of send_emails
\* observes differs from the outcome of a successful run over an empty
\* list: it is not a silent (0, 0).
C5_SetupFailureDistinct ==
    (pc = "done" /\ SetupFailed) => result # EmptyRunResult

\* ------------------------------------------------------------------ C6
\* C6 as stated: whenever the connection was opened a quit is issued before
\* send_emails returns (here even restricted to runs in which connect and
\* login succeeded).
C6_AsStated ==
    (pc = "done" /\ SetupOK) => Quits = 1

ConnectionLost == HasEvent("login", "drop") \/ HasEvent("send", "drop")

\* C6 amended: whenever the connection was opened and is still open when
\* send_emails leaves the try block, exactly one quit is issued, as the last
\* call before send_emails returns, on every exit path (all batches
\* exhausted, early return at the cap, login failure after a successful
\* connect, exception raised inside the try block); when the connection
\* was never opened, or was lost during the run, no quit is issued.
C6_QuitWhenStillConnected ==
    /\ pc # "done" => Quits = 0
    /\ pc = "done" =>
          /\ Quits = (IF HasEvent("connect", "ok") /\ ~ConnectionLost
                         THEN 1 ELSE 0)
          /\ Quits = 1 => trace[Len(trace)].op = "quit"

\* the early return at the cap, with records left, ended by a quit
C6_Witness ==
    /\ Finished
    /\ StoppedByCap
    /\ sent_count >= 1
    /\ Quits = 1
    /\ trace[Len(trace)].op = "quit"

\* ------------------------------------------------------------------ C7
\* C7 as stated: over a non-empty list the inter-batch delay is invoked
\* exactly ceil(len(sessions) / batch_size) - 1 times (here even restricted
\* to runs in which connect and login succeeded).
C7_AsStated ==
    (pc = "done" /\ SetupOK /\ ValidBatchSize /\ Len(sessions) > 0) =>
       Delays = CeilDiv(Len(sessions), batch_size) - 1

\* C7 amended: over a non-empty list, with batch_size >= 1 and connect and
\* login succeeded, the delay is invoked exactly batches - 1 times (zero
\* times for a single batch) unless the cap check ends the run; when the
\* cap check ends the run in the k-th batch the delay has been invoked
\* exactly k - 1 times.
C7_DelaysBetweenBatches ==
    (pc = "done" /\ SetupOK /\ ValidBatchSize /\ Len(sessions) > 0) =>
       /\ Delays = Len(batches) - 1
       /\ ~StoppedByCap => Len(batches) = CeilDiv(Len(sessions), batch_size)
       /\ CeilDiv(Len(sessions), batch_size) = 1 => Delays = 0

\* five records in batches of two, no cap: batches 2, 2, 1 and two delays
C7_Witness ==
    /\ Finished
    /\ max_emails_per_session = {}
    /\ Len(sessions) = 5
    /\ batch_size = 2
    /\ Len(batches) = 3
    /\ Len(batches[3]) = 1
    /\ Delays = 2
    /\ result = Returned(5, 0)

\* ------------------------------------------------------------------ C8
\* C8: for a list of length N and batch_size B >= 1 the batches formed are
\* consecutive slices of the list in input order; there are ceil(N / B) of
\* them; each but the last has exactly B records, the last has between 1
\* and B; once the loop over the batches is exhausted they contain all N
\* records, each once.
C8_Partition ==
    ValidBatchSize =>
       LET N == Len(sessions)
           B == batch_size
           C == CeilDiv(N, B)
       IN /\ pc \in {"for_batch", "for_session", "render", "send", "delay"}
                => total_batches = C
          /\ TotalBatches(N, B) = C
          /\ Len(batches) <= C
          /\ \A k \in 1..Len(batches) :
                /\ batches[k] = SubSeq(sessions, (k - 1) * B + 1, Min(k * B, N))
                /\ k < C => Len(batches[k]) = B
                /\ k = C => Len(batches[k]) \in 1..B
          /\ \A k \in 1..C :
                BatchAt(sessions, B, k - 1)
                   = SubSeq(sessions, (k - 1) * B + 1, Min(k * B, N))
          /\ (pc \in {"finally", "done"} /\ SetupOK /\ ~StoppedByCap)
                => /\ Len(batches) = C
                   /\ Flatten(batches) = sessions

\* five records in batches of two: <<1, 2>>, <<3, 4>>, <<5>>
C8_Witness ==
    /\ pc = "done"
    /\ Len(sessions) = 5
    /\ batch_size = 2
    /\ batches = <<SubSeq(sessions, 1, 2), SubSeq(sessions, 3, 4),
                   SubSeq(sessions, 5, 5)>>

\* ------------------------------------------------------------------ C9
\* C9 as stated: after the send that makes sent_count equal to the cap no
\* further record is attempted and no further inter-batch sleep is
\* performed, wherever in a batch that send falls.
C9_AsStated ==
    \A m \in max_emails_per_session :
       \A i \in 1..Len(trace) :
          OkSends(i - 1) >= m => trace[i].op \notin {"render", "send", "sleep"}

\* C9 amended: after the send that makes sent_count equal to the cap no
\* further record is attempted, and no further inter-batch sleep is
\* performed when that send falls before the last record of its batch or in
\* the last batch; when it is the last record of a batch that is not the
\* last batch, the one delay that follows that batch is still performed,
\* and the run stops at the cap check that comes next.
C9_NoAttemptAfterCap ==
    \A m \in max_emails_per_session :
       \A i \in 1..Len(trace) :
          OkSends(i - 1) >= m =>
             /\ trace[i].op \notin {"render", "send"}
             /\ trace[i].op = "sleep" =>
                   /\ i > 1
                   /\ trace[i - 1].op = "send"
                   /\ trace[i - 1].res = "ok"
                   /\ Pos(trace[i - 1].rec) % batch_size = 0
                   /\ Pos(trace[i - 1].rec) < Len(sessions)
                   /\ i < Len(trace) => trace[i + 1].op = "quit"

\* cap 3 on five records in batches of two: the third record, first of its
\* batch, reaches the cap; records 4 and 5 and the second delay are skipped
C9_Witness ==
    /\ Finished
    /\ max_emails_per_session = {3}
    /\ Len(sessions) = 5
    /\ batch_size = 2
    /\ sent_count = 3
    /\ Len(Attempts) = 3
    /\ Delays = 1

\* ----------------------------------------------------------------- C10
\* C10: when connect or login raises, no record is attempted: no render, no
\* send, no batch, no inter-batch delay, and both counts stay 0.
C10_NoAttemptAfterSetupFailure ==
    SetupFailed =>
       /\ Len(Attempts) = 0
       /\ Len(Sends) = 0
       /\ Delays = 0
       /\ batches = <<>>
       /\ sent_count = 0
       /\ failure_count = 0
       /\ pc \in {"finally", "done"}
       /\ pc = "done" => result = Returned(0, 0)

\* login raised on a run over at least two records
C10_Witness ==
    /\ pc = "done"
    /\ HasEvent("connect", "ok")
    /\ HasEvent("login", "raise")
    /\ Len(sessions) >= 2
    /\ batch_size >= 1

\* ----------------------------------------------------------------- C11
\* the environment was loaded: send_emails got as far as smtp.connect()
EnvLoaded == trace # <<>>

\* C11: for an empty record list, any batch_size >= 1 and any cap, there are
\* zero batches, nothing is rendered or sent on the session, no inter-batch
\* delay is performed, and send_emails returns (0, 0).
C11_EmptyListZeroWork ==
    (sessions = <<>> /\ ValidBatchSize) =>
       /\ pc \notin {"start", "connect", "login", "batches"} => total_batches = 0
       /\ batches = <<>>
       /\ Len(Attempts) = 0
       /\ Len(Sends) = 0
       /\ Delays = 0
       /\ pc \notin {"for_session", "render", "send", "delay"}
       /\ (pc = "done" /\ EnvLoaded) => result = Returned(0, 0)

\* an established session over the empty list, closed by a quit
C11_Witness ==
    /\ sessions = <<>>
    /\ batch_size = 2
    /\ max_emails_per_session = {1}
    /\ SetupOK
    /\ pc = "done"
    /\ Quits = 1
    /\ result = Returned(0, 0)

\* ----------------------------------------------------------------- C12
\* C12: with max_emails_per_session = 0 no record is rendered or sent for
\* any record list, no inter-batch delay is performed, and after session
\* setup send_emails returns (0, 0).
C12_ZeroCapSendsNothing ==
    max_emails_per_session = {0} =>
       /\ Len(Attempts) = 0
       /\ Len(Sends) = 0
       /\ Delays = 0
       /\ sent_count = 0
       /\ failure_count = 0
       /\ pc \notin {"render", "send", "delay"}
       /\ (pc = "done" /\ EnvLoaded) => result = Returned(0, 0)

\* cap 0 on three records: the first cap check returns, the session is quit
C12_Witness ==
    /\ max_emails_per_session = {0}
    /\ Len(sessions) = 3
    /\ batch_size = 2
    /\ SetupOK
    /\ pc = "done"
    /\ Len(batches) = 1
    /\ Quits = 1
    /\ result = Returned(0, 0)

\* ----------------------------------------------------------------- C13
IsOk(e) == e.res = "ok"
IsTransmitted(e) == e.op = "send" /\ e.res = "ok"
Transmitted == SelectSeq(trace, IsTransmitted)

\* C13: a missing attachment file is never a per-recipient failure and
\* affects all sends uniformly: every record whose rendering succeeded has
\* its message built and handed to send_message, with or without the
\* attachment; a successful transmit counts in sent_count whatever became
\* of the attachment, failure_count counts only render and transport
\* failures; and within one run either every transmitted message carries
\* the attachment or none does.
C13_MissingAttachmentUniform ==
    /\ sent_count = Len(SelectSeq(Sends, IsOk))
    /\ failure_count = Len(FailedOutcomes)
    /\ \A i \in 1..Len(Transmitted) : \A j \in 1..Len(Transmitted) :
          Transmitted[i].att = Transmitted[j].att

\* the part of C13 that holds of the code: the fate of the attachment never
\* turns an attempt into a failure; a message without its attachment that
\* was transmitted counts as sent, and every rendered record is handed to
\* send_message.
C13_MissingAttachmentNotAFailure ==
    /\ sent_count = Len(SelectSeq(Sends, IsOk))
    /\ failure_count = Len(FailedOutcomes)
    /\ pc # "send" => Len(Sends) = Len(SelectSeq(Attempts, IsOk))
    /\ \A i \in 1..Len(Sends) : Sends[i].att \in {"attached", "skipped"}

\* two records, the file missing for both, both transmitted and counted
C13_Witness ==
    /\ Finished
    /\ Len(sessions) = 2
    /\ Len(Transmitted) = 2
    /\ Transmitted[1].att = "skipped"
    /\ Transmitted[2].att = "skipped"
    /\ result = Returned(2, 0)

\* ----------------------------------------------------------------- C18
\* C18: sends are strictly sequential within and across batches: at most
\* one attempt is in flight; an attempt starts only after the previous one
\* has finished (its render raised or its send returned or raised); the
\* records are attempted in exactly the input order of the list, so every
\* attempt of batch k precedes every attempt of batch k + 1.
C18_StrictlySequential ==
    /\ Len(Attempts) <= Len(sessions)
    /\ Recs(Attempts) = SubSeq(sessions, 1, Len(Attempts))
    /\ Len(Attempts) - Len(Outcomes) = (IF pc = "send" THEN 1 ELSE 0)
    /\ \A i \in 1..Len(trace) :
          /\ trace[i].op = "send" =>
                /\ i > 1
                /\ trace[i - 1].op = "render"
                /\ trace[i - 1].res = "ok"
                /\ trace[i - 1].rec = trace[i].rec
          /\ (trace[i].op = "render" /\ trace[i].res = "ok" /\ i < Len(trace)) =>
                /\ trace[i + 1].op = "send"
                /\ trace[i + 1].rec = trace[i].rec
    /\ \A a \in 1..Len(Attempts) : \A b \in 1..Len(Attempts) :
          a < b => /\ Pos(Attempts[a].rec) < Pos(Attempts[b].rec)
                   /\ (Pos(Attempts[a].rec) - 1) \div batch_size
                         <= (Pos(Attempts[b].rec) - 1) \div batch_size

\* five records in batches of two, all attempted in order, some failing
C18_Witness ==
    /\ Finished
    /\ Len(sessions) = 5
    /\ batch_size = 2
    /\ Recs(Attempts) = sessions
    /\ failure_count >= 1
    /\ Delays = 2

\* ----------------------------------------------------------------- C19
CountersMatchHistory ==
    /\ sent_count + failure_count = Len(Outcomes)
    /\ sent_count = Len(SelectSeq(Sends, IsOk))
    /\ failure_count = Len(FailedOutcomes)
    /\ \A i \in 1..Len(trace) : \A j \in 1..Len(trace) :
          (trace[i].op = "render" /\ trace[i].res = "raise" /\ trace[j].op = "send")
             => trace[i].rec # trace[j].rec

CountersStep ==
    /\ sent_count' >= sent_count
    /\ failure_count' >= failure_count
    /\ IF Len(Outcomes') = Len(Outcomes) + 1
          THEN IF Outcomes'[Len(Outcomes')].res = "ok"
                  THEN /\ Outcomes'[Len(Outcomes')].op = "send"
                       /\ sent_count' = sent_count + 1
                       /\ failure_count' = failure_count
                  ELSE /\ failure_count' = failure_count + 1
                       /\ sent_count' = sent_count
          ELSE /\ Outcomes' = Outcomes
               /\ sent_count' = sent_count
               /\ failure_count' = failure_count

\* C19: in every reachable state sent_count + failure_count is the number
\* of records attempted so far (attempts that finished); neither counter
\* ever decreases; each attempt changes exactly one counter by exactly one:
\* sent_count iff render, message construction and transmit all succeeded,
\* failure_count iff the render or the transmit raised; a record whose
\* rendering fails is never transmitted and never counted as sent.
C19_CountersTrackAttempts == [](CountersMatchHistory) /\ [][CountersStep]_vars

\* a run that counted a render failure, a transport failure and a success
C19_Witness ==
    /\ Finished
    /\ HasEvent("render", "raise")
    /\ HasEvent("send", "raise")
    /\ HasEvent("send", "ok")
    /\ result = Returned(1, 2)

\* ----------------------------------------------------------------- C20
OpCount(op) == Cardinality({k \in 1..Len(trace) : trace[k].op = op})

\* C20: every send_message happens inside the session window: after both
\* connect and login have succeeded and before quit; connect, login and
\* quit are each called at most once per run (one session, no reconnect).
C20_SendsInsideSession ==
    /\ OpCount("connect") <= 1
    /\ OpCount("login") <= 1
    /\ OpCount("quit") <= 1
    /\ \A i \in 1..Len(trace) :
          /\ trace[i].op = "connect" => i = 1
          /\ trace[i].op = "login" => i = 2 /\ trace[1].res = "ok"
          /\ trace[i].op \in {"render", "send", "sleep"} =>
                /\ i > 2
                /\ trace[1].op = "connect" /\ trace[1].res = "ok"
                /\ trace[2].op = "login" /\ trace[2].res = "ok"
                /\ \A q \in 1..i : trace[q].op # "quit"
          /\ trace[i].op = "quit" => i = Len(trace) /\ pc = "done"

\* three sends on one session, then the quit
C20_Witness ==
    /\ Finished
    /\ Len(Sends) = 3
    /\ OpCount("connect") = 1
    /\ OpCount("login") = 1
    /\ Quits = 1

\* ----------------------------------------------------------------- C14
\* the character classes \d and [0-9a-f] of the tests' pattern
RegexDigits == {"0", "1", "2", "3", "4", "5", "6", "7", "8", "9"}
RegexHex == RegexDigits \cup {"a", "b", "c", "d", "e", "f"}

\* ^(camp|lead|client|adhoc)\d{4}_(intro|followup|reply)_[0-9a-f]{4}$
MatchesUidPattern(u) ==
    \E m \in {"camp", "lead", "client", "adhoc"} :
       \E t \in {"intro", "followup", "reply"} :
          LET a == Len(Chars(m))
              b == Len(Chars(t))
          IN /\ Len(u) = a + 4 + 1 + b + 1 + 4
             /\ SubSeq(u, 1, a) = Chars(m)
             /\ \A k \in (a + 1)..(a + 4) : u[k] \in RegexDigits
             /\ u[a + 5] = "_"
             /\ SubSeq(u, a + 6, a + 5 + b) = Chars(t)
             /\ u[a + 6 + b] = "_"
             /\ \A k \in (a + 7 + b)..(a + 10 + b) : u[k] \in RegexHex

Constructed == lpc = "constructed" /\ mail_session.ok

\* C14 as stated: every MailSession constructed without a uid, for every
\* mode, mail_type and campaign_id accepted by validation, gets a uid that
\* matches the pattern; a uid already set is kept (here even restricted to
\* campaign ids that are not negative).
C14_AsStated ==
    (Constructed /\ session_data.campaign_id >= 0) =>
       IF session_data.uid = <<>>
          THEN MatchesUidPattern(mail_session.uid)
          ELSE mail_session.uid = session_data.uid

\* C14 amended: every MailSession constructed without a uid, for every
\* mode, every mail_type and every campaign_id from 0 to 9999, gets a uid
\* {mode}{campaign_id zero-padded to 4 digits}_{mail_type}_{4 lowercase
\* hex digits} that matches the pattern; a campaign_id of 10000 or more is
\* written with all its digits and a negative one with its sign, and those
\* uids do not match; a uid already set is kept, never regenerated.
C14_UidFormat ==
    Constructed =>
       IF session_data.uid = <<>>
          THEN /\ session_data.campaign_id \in 0..9999
                     => MatchesUidPattern(mail_session.uid)
               /\ session_data.campaign_id \notin 0..9999
                     => ~MatchesUidPattern(mail_session.uid)
               /\ SubSeq(mail_session.uid, 1, Len(Chars(mail_session.mode)))
                     = Chars(mail_session.mode)
          ELSE mail_session.uid = session_data.uid

\* mode lead, campaign 7, reply, token bytes ab cd: lead0007_reply_abcd
C14_Witness ==
    /\ Constructed
    /\ session_data.uid = <<>>
    /\ session_data.campaign_id = 7
    /\ mail_session.uid = <<"l", "e", "a", "d", "0", "0", "0", "7", "_",
                            "r", "e", "p", "l", "y", "_", "a", "b", "c", "d">>

\* ----------------------------------------------------------------- C15
LoaderReturned == lpc \in {"returned", "main_done"} /\ read_excel = "ok"
HasColumns(ecol, ncol) ==
    /\ Len(df) >= 1
    /\ \A k \in 1..Len(df) : DOMAIN df[k] = {ecol, ncol}

\* the rows of the sheet whose cell in column ecol is a valid address
ValidRows(ecol) == SelectSeq(df, LAMBDA row : IsValidEmail(RowGet(row, ecol)))

\* one MailSession per valid row, in row order, with that row's address
\* and name, mail_type intro, mode camp, campaign_id 1001; the other rows
\* logged and skipped
LoadsValidRows(ecol, ncol) ==
    /\ Len(loaded) = Len(ValidRows(ecol))
    /\ \A k \in 1..Len(loaded) :
          /\ k <= Len(ValidRows(ecol))
          /\ loaded[k].recipient_email = ValidRows(ecol)[k][ecol]
          /\ loaded[k].recipient_name
                = (IF ValidRows(ecol)[k][ncol] = NaN THEN None
                   ELSE ValidRows(ecol)[k][ncol])
          /\ loaded[k].mail_type = "intro"
          /\ loaded[k].mode = "camp"
          /\ loaded[k].campaign_id = 1001
          /\ MatchesUidPattern(loaded[k].uid)
    /\ Len(log) = Len(df) - Len(ValidRows(ecol))
    /\ \A k \in 1..Len(log) :
          /\ log[k].msg = "skip_row"
          /\ ~IsValidEmail(RowGet(df[log[k].row], ecol))

\* C15: for a sheet with the columns recipient_email and recipient_name,
\* load_from_excel returns exactly one MailSession per row with a valid
\* recipient_email, in row order, with that row's address and name,
\* mail_type intro, mode camp, campaign_id 1001; an invalid or empty
\* address drops the row, logged, and the later rows are still loaded.
C15_LoadsRecipientColumns ==
    (LoaderReturned /\ HasColumns("recipient_email", "recipient_name"))
       => LoadsValidRows("recipient_email", "recipient_name")

\* what the code does load: the same, for the columns Email and Name
C15_LoadsEmailNameColumns ==
    (LoaderReturned /\ HasColumns("Email", "Name"))
       => LoadsValidRows("Email", "Name")

\* an invalid row between two valid ones, in the columns Email and Name
C15_EmailNameWitness ==
    /\ LoaderReturned
    /\ HasColumns("Email", "Name")
    /\ Len(df) = 3
    /\ Len(loaded) = 2
    /\ log = <<LogEntry("skip_row", 2)>>

\* ----------------------------------------------------------------- C16
\* C16: the result of load_from_excel unpacks at mailer.py line 225 as
\* (sessions, total_rows, skipped_rows): sessions is the list of valid
\* records, total_rows the number of input rows, skipped_rows the number
\* of rows skipped, and total_rows = len(sessions) + skipped_rows.
C16_ResultUnpacksWithTotals ==
    lpc = "main_done" =>
       /\ main.kind = "bound"
       /\ main.sessions = mail_sessions
       /\ main.total_rows = Len(df)
       /\ main.skipped_rows = Len(df) - Len(mail_sessions)
       /\ main.total_rows = Len(main.sessions) + main.skipped_rows

\* ----------------------------------------------------------------- C17
\* C17: when pd.read_excel raises (FileNotFoundError or any other
\* Exception), load_from_excel raises nothing: it logs one error and
\* returns an empty list.
C17_UnreadableSheetGivesEmptyList ==
    read_excel # "ok" =>
       /\ lpc \in {"read", "return", "returned", "main_done"}
       /\ mail_sessions = <<>>
       /\ lpc # "read" =>
             log = <<LogEntry(IF read_excel = "FileNotFoundError"
                                THEN "file_not_found" ELSE "load_error", 0)>>
       /\ lpc \in {"returned", "main_done"} => loaded = <<>>

\* read_excel raised an error other than FileNotFoundError; [] returned
C17_Witness ==
    /\ read_excel = "Exception"
    /\ lpc = "returned"
    /\ loaded = <<>>
    /\ Len(log) = 1

\* ----------------------------------------------------------------- C21
\* the events of the history before position k
Before(k) == SubSeq(trace, 1, k - 1)
AttemptsBefore(k) == SelectSeq(Before(k), IsRender)
SleepsBefore(k) == Len(SelectSeq(Before(k), IsSleep))

\* the attempts made after exactly j delays: before the first delay (j = 0),
\* between the j-th and the next one, or after the last one (j = Delays)
AttemptsAfterDelay(j) ==
    {k \in 1..Len(trace) : IsRender(trace[k]) /\ SleepsBefore(k) = j}

\* C21: throttling bound.  With batch_size >= 1, at most batch_size attempts
\* occur before the first inter-batch delay, between two consecutive delays
\* and after the last one.  The j-th delay occurs only when exactly the
\* records of the first j batches have been attempted (so never before the
\* first attempt), and only when records of a later batch are left (so never
\* after the last batch); every record of batch j + 1 is attempted after
\* exactly j delays, hence after the delay that follows batch j.
C21_ThrottlingBound ==
    ValidBatchSize =>
       /\ \A j \in 0..Delays :
             Cardinality(AttemptsAfterDelay(j)) <= batch_size
       /\ \A k \in 1..Len(trace) :
             IsSleep(trace[k]) =>
                LET j == SleepsBefore(k) + 1 IN
                   /\ AttemptsBefore(k) # <<>>
                   /\ j * batch_size < Len(sessions)
                   /\ Recs(AttemptsBefore(k)) = PySlice(sessions, 0, j * batch_size)
       /\ \A k \in 1..Len(trace) :
             IsRender(trace[k]) =>
                SleepsBefore(k) = (Pos(trace[k].rec) - 1) \div batch_size

\* five records in batches of two, no cap: the history holds two attempts,
\* a delay, two attempts, a delay and the last attempt
C21_Witness ==
    /\ Finished
    /\ Len(sessions) = 5
    /\ batch_size = 2
    /\ Delays = 2
    /\ Len(Attempts) = 5
    /\ Cardinality(AttemptsAfterDelay(0)) = 2
    /\ Cardinality(AttemptsAfterDelay(1)) = 2
    /\ Cardinality(AttemptsAfterDelay(2)) = 1

\* ----------------------------------------------------------------- C22
Max(a, b) == IF a > b THEN a ELSE b

\* the body of send_emails (line 160 on) has been entered
Entered == pc = "connect"

\* no record is attempted again after an attempt of it failed, and no record
\* is attempted twice at all
NoRetry ==
    /\ \A i \in 1..Len(trace) : \A j \in 1..Len(trace) :
          (i < j /\ IsOutcome(trace[i]) /\ Failed(trace[i]) /\ IsRender(trace[j]))
             => trace[j].rec # trace[i].rec
    /\ \A a \in 1..Len(Attempts) : \A b \in 1..Len(Attempts) :
          a < b => Attempts[a].rec # Attempts[b].rec

\* the bounds of C22 as stated: at most ceil(len / batch_size) - 1 delays
\* (here even restricted to finished runs in which connect and login
\* succeeded)
BoundsAsStated ==
    (Finished /\ SetupOK /\ ValidBatchSize) =>
       /\ Len(Attempts) <= Len(sessions)
       /\ Delays <= CeilDiv(Len(sessions), batch_size) - 1
       /\ NoRetry

\* the bounds of C22 with the delay bound floored at zero
ResourceBounds ==
    ValidBatchSize =>
       /\ Len(Attempts) <= Len(sessions)
       /\ Delays <= Max(0, CeilDiv(Len(sessions), batch_size) - 1)
       /\ NoRetry
       /\ Finished => result = Returned(sent_count, failure_count)

\* C22 as stated: every run over a finite list with batch_size >= 1
\* terminates with a pair of counts, after at most len(sessions) attempts
\* and at most ceil(len(sessions) / batch_size) - 1 delays, with no retry.
C22_AsStated == [](BoundsAsStated) /\ ((Entered /\ ValidBatchSize) ~> Finished)

\* C22 amended: every run of the body of send_emails over a finite list
\* with batch_size >= 1 terminates, returning the pair (sent_count,
\* failure_count), after at most len(sessions) attempts and at most
\* max(0, ceil(len(sessions) / batch_size) - 1) delays (no delay for an
\* empty list), and no record is attempted again after its attempt failed.
C22_TerminatesWithinBounds ==
    [](ResourceBounds) /\ ((Entered /\ ValidBatchSize) ~> Finished)

\* four records in a batch of three and a batch of one: one render and one
\* send fail, each failed record is attempted once, one delay, counts (2, 2)
C22_Witness ==
    /\ Finished
    /\ Len(sessions) = 4
    /\ batch_size = 3
    /\ Len(Attempts) = 4
    /\ Delays = 1
    /\ HasEvent("render", "raise")
    /\ HasEvent("send", "raise")
    /\ result = Returned(2, 2)

====
